---- MODULE Spec2Model ----
(***************************************************************************)
(* A model of sage.tensor.modules.comp_numpy.ComponentNumpy: the dense     *)
(* component container with per-axis start indices, its index              *)
(* normalisation, its read/write accessor, broadcasting, elementwise       *)
(* arithmetic and equality.                                                *)
(*                                                                         *)
(* Storage entries are float64 in the program; the model keeps the         *)
(* integers, which float64 represents exactly in the ranges used here.     *)
(***************************************************************************)
EXTENDS Integers, Sequences, FiniteSets, TLC

\* objs:    the containers, in the order they were built
\* ret:     the last call and its outcome
\* nwrites: how many writes through the accessor have succeeded
\* heap:    the numpy buffers, by address, where the identity of a storage
\*          matters (elsewhere a container holds its storage by value)
VARIABLES objs, ret, nwrites, heap

vars == <<objs, ret, nwrites, heap>>

(***************************************************************************)
(* Bounds of the model.                                                    *)
(***************************************************************************)
\* how many writes that succeed a behaviour makes through the accessor, when
\* it is called with index arguments only
MaxWrites == 2
\* the same, when slices are written too
MaxSliceWrites == 1
\* the shapes broadcast against each other have 1..BMaxRank axes of 1..BMaxDim
BMaxRank == 3
BMaxDim == 3
\* the integers used as operands of the operators are -MaxScalar..MaxScalar
MaxScalar == 2
\* _khatri_rao_product is called with 1..KrMaxArgs matrices
KrMaxArgs == 3
\* the dimensions of the matrices and containers _svd is called with are
\* 1..SvdMaxDim
SvdMaxDim == 3
\* the out-of-range indices tried on an axis lie Margin beyond its two ends
Margin == 1

(***************************************************************************)
(* Generic helpers (Python / numpy primitives).                            *)
(***************************************************************************)
Max2(a, b) == IF a >= b THEN a ELSE b

Range(s) == {s[i] : i \in DOMAIN s}

\* (x,) * n
Repeat(x, n) == [i \in 1..n |-> x]

\* all storage coordinates (0-based per axis) of an array of dimensions dims
RECURSIVE Coords(_)
Coords(dims) ==
    IF dims = <<>> THEN {<<>>}
    ELSE {<<i>> \o t : i \in 0..(Head(dims) - 1), t \in Coords(Tail(dims))}

\* np.zeros(shape)
NpZeros(shape) == [dims |-> shape, data |-> [x \in Coords(shape) |-> 0]]

\* numpy's element index: a negative coordinate counts from the end of its
\* axis, and one outside the axis raises IndexError (reported as <<>>)
NpWrap(dims, ind) ==
    [i \in DOMAIN ind |-> IF ind[i] < 0 THEN ind[i] + dims[i] ELSE ind[i]]

NpInBounds(dims, ind) ==
    \A i \in DOMAIN ind : -dims[i] <= ind[i] /\ ind[i] < dims[i]

(***************************************************************************)
(* Outcomes of a call: a normal return or a raised exception.              *)
(***************************************************************************)
NoArr == [dims |-> <<>>, data |-> <<>>]

Outcome(kind, val, ind, info) ==
    [kind |-> kind, val |-> val, ind |-> ind, info |-> info,
     formatted |-> FALSE, fname |-> "None", hasDir |-> FALSE, dir |-> 0,
     rows |-> <<>>, arr |-> NoArr]

Ok(val) == Outcome("ok", val, <<>>, <<>>)

Raise(kind, info) == Outcome(kind, 0, <<>>, info)

(***************************************************************************)
(* ComponentNumpy.__init__                                                 *)
(*   frame  : [nested, val]  a single frame (sequence of labels) or a      *)
(*            sequence of frames                                           *)
(*   shape  : [given, val]   None or a sequence of dimensions              *)
(*   start  : [isSeq, k, seq] a single integer or a sequence of integers   *)
(***************************************************************************)
CtorFrame(frame) == IF frame.nested THEN frame.val ELSE <<frame.val>>

CtorShape(frame, nb_indices, shape) ==
    IF ~shape.given THEN Repeat(Len(CtorFrame(frame)[1]), nb_indices)
    ELSE shape.val

CtorSindex(nb_indices, start_index) ==
    IF start_index.isSeq THEN start_index.seq
    ELSE Repeat(start_index.k, nb_indices)

ComponentNumpy(ring, frame, nb_indices, shape, start_index, output_formatter) ==
    [ring   |-> ring,
     frame  |-> CtorFrame(frame),
     nid    |-> nb_indices,
     shape  |-> CtorShape(frame, nb_indices, shape),
     sindex |-> CtorSindex(nb_indices, start_index),
     fmt    |-> output_formatter,
     comp   |-> NpZeros(CtorShape(frame, nb_indices, shape))]

\* constructor argument helpers
OneFrame(f) == [nested |-> FALSE, val |-> f]
ManyFrames(fs) == [nested |-> TRUE, val |-> fs]
NoShape == [given |-> FALSE, val |-> <<>>]
GivenShape(s) == [given |-> TRUE, val |-> s]
StartInt(k) == [isSeq |-> FALSE, k |-> k, seq |-> <<>>]
StartSeq(s) == [isSeq |-> TRUE, k |-> 0, seq |-> s]

(***************************************************************************)
(* Index arguments of the accessor.                                        *)
(*   form "int"   : a bare integer                    seq = <<k>>          *)
(*   form "tuple" : c[i, j, ...]                                           *)
(*   form "list"  : c[[i, j, ...]]   (the raw form)                        *)
(*   form "slice" : c[start:stop:step], each part possibly None            *)
(***************************************************************************)
MkArg(form, seq) ==
    [form |-> form, seq |-> seq,
     hasStart |-> FALSE, start |-> 0, hasStop |-> FALSE, stop |-> 0,
     hasStep |-> FALSE, step |-> 0]

IntArg(k) == MkArg("int", <<k>>)
TupleArg(s) == MkArg("tuple", s)
ListArg(s) == MkArg("list", s)

SliceArg(hasStart, start, hasStop, stop, hasStep, step) ==
    [form |-> "slice", seq |-> <<>>,
     hasStart |-> hasStart, start |-> start, hasStop |-> hasStop, stop |-> stop,
     hasStep |-> hasStep, step |-> step]

(***************************************************************************)
(* ComponentNumpy._check_indices                                           *)
(* The storage coordinate is built from indices[i], the argument as it was *)
(* passed, before the range test on ind[i]: a bare integer cannot be       *)
(* subscripted, and the call raises TypeError.                             *)
(***************************************************************************)
\* a variant that forgets the start index when it builds the storage coordinate
RECURSIVE CheckLoopNoOffset(_, _, _, _)
CheckLoopNoOffset(self, indices, i, np_ind) ==
    IF i > Len(self.shape) THEN Outcome("ok", 0, np_ind, <<>>)
    ELSE IF indices.form = "int" THEN Raise("TypeError", <<>>)
    ELSE LET si == self.sindex[i]
             imax == self.shape[i] + si - 1
         IN  IF indices.seq[i] < si \/ indices.seq[i] > imax
             THEN Raise("IndexError", <<indices.seq[i], si, imax>>)
             ELSE CheckLoopNoOffset(self, indices, i + 1,
                                    Append(np_ind, indices.seq[i]))

CheckIndicesNoOffset(self, indices) ==
    IF Len(indices.seq) # Len(self.shape)
    THEN Raise("ValueError", <<self.nid, Len(indices.seq)>>)
    ELSE CheckLoopNoOffset(self, indices, 1, <<>>)

\* a variant that uses the start index and length of the first axis on every axis
RECURSIVE CheckLoopFirstAxis(_, _, _, _)
CheckLoopFirstAxis(self, indices, i, np_ind) ==
    IF i > Len(self.shape) THEN Outcome("ok", 0, np_ind, <<>>)
    ELSE IF indices.form = "int" THEN Raise("TypeError", <<>>)
    ELSE LET si == self.sindex[1]
             imax == self.shape[1] + si - 1
         IN  IF indices.seq[i] < si \/ indices.seq[i] > imax
             THEN Raise("IndexError", <<indices.seq[i], si, imax>>)
             ELSE CheckLoopFirstAxis(self, indices, i + 1,
                                     Append(np_ind, indices.seq[i] - si))

CheckIndicesFirstAxis(self, indices) ==
    IF Len(indices.seq) # Len(self.shape)
    THEN Raise("ValueError", <<self.nid, Len(indices.seq)>>)
    ELSE CheckLoopFirstAxis(self, indices, 1, <<>>)

RECURSIVE CheckLoop(_, _, _, _)
CheckLoop(self, indices, i, np_ind) ==
    IF i > Len(self.shape) THEN Outcome("ok", 0, np_ind, <<>>)
    ELSE IF indices.form = "int" THEN Raise("TypeError", <<>>)
    ELSE LET si == self.sindex[i]
             imax == self.shape[i] + si - 1
         IN  IF indices.seq[i] < si \/ indices.seq[i] > imax
             THEN Raise("IndexError", <<indices.seq[i], si, imax>>)
             ELSE CheckLoop(self, indices, i + 1,
                            Append(np_ind, indices.seq[i] - si))

CheckIndices(self, indices) ==
    IF Len(indices.seq) # Len(self.shape)
    THEN Raise("ValueError", <<self.nid, Len(indices.seq)>>)
    ELSE CheckLoop(self, indices, 1, <<>>)

(***************************************************************************)
(* Axis-0 slices (shared by __getitem__ and __setitem__).                  *)
(***************************************************************************)
\* start, stop translated to storage rows (None: 0 and the axis length)
SliceStart(self, indices) ==
    IF indices.hasStart THEN indices.start - self.sindex[1] ELSE 0

SliceStop(self, indices) ==
    LET range_start == self.sindex[1]
        range_end == self.sindex[1] + self.shape[1]
    IN  IF indices.hasStop THEN indices.stop - range_start
        ELSE range_end - range_start

\* the test that guards the slice: true when the slice is accepted
SliceInRange(self, indices) ==
    LET range_start == self.sindex[1]
        range_end == self.sindex[1] + self.shape[1]
        start == SliceStart(self, indices)
        stop == SliceStop(self, indices)
    IN  /\ 0 <= start /\ start <= range_end - range_start - 1
        /\ 0 <= stop /\ stop <= range_end - range_start

\* the rows slice(start, stop, step) selects, in order, for 0 <= start, stop <= n
RECURSIVE RowsFrom(_, _, _)
RowsFrom(start, stop, step) ==
    IF step > 0
    THEN IF start >= stop THEN <<>>
         ELSE <<start>> \o RowsFrom(start + step, stop, step)
    ELSE IF start <= stop THEN <<>>
         ELSE <<start>> \o RowsFrom(start + step, stop, step)

SliceRows(start, stop, indices) ==
    RowsFrom(start, stop, IF indices.hasStep THEN indices.step ELSE 1)

PosIn(rows, r) == CHOOSE p \in DOMAIN rows : rows[p] = r

\* comp[rows]: the sub-array of the selected rows of axis 0
SubArray(comp, rows) ==
    LET dims == <<Len(rows)>> \o Tail(comp.dims)
    IN  [dims |-> dims,
         data |-> [x \in Coords(dims) |-> comp.data[<<rows[x[1] + 1]>> \o Tail(x)]]]

\* values written through the accessor: a scalar or a flat sequence
Scalar(k) == [isSeq |-> FALSE, k |-> k, seq |-> <<>>]
Flat(s) == [isSeq |-> TRUE, k |-> 0, seq |-> s]

\* numpy broadcasts the value to the selected sub-array: a flat sequence
\* must have one entry or as many as the last axis of the target
Assignable(comp, rows, value) ==
    LET dims == <<Len(rows)>> \o Tail(comp.dims)
    IN  \/ ~value.isSeq
        \/ Len(value.seq) = 1
        \/ Len(value.seq) = dims[Len(dims)]

ValueAt(value, x) ==
    IF ~value.isSeq THEN value.k
    ELSE IF Len(value.seq) = 1 THEN value.seq[1]
    ELSE value.seq[x[Len(x)] + 1]

\* comp[rows] = value, in place
AssignRows(comp, rows, value) ==
    [dims |-> comp.dims,
     data |-> [x \in DOMAIN comp.data |->
                 IF x[1] \in Range(rows)
                 THEN ValueAt(value, <<PosIn(rows, x[1]) - 1>> \o Tail(x))
                 ELSE comp.data[x]]]

(***************************************************************************)
(* ComponentNumpy.__getitem__                                              *)
(***************************************************************************)
\* the first part of the handler: from the argument to the indices, the
\* format directive and whether formatting is suppressed
Dispatch(err, indices, no_format, hasDir, dir) ==
    [err |-> err, indices |-> indices, no_format |-> no_format,
     hasDir |-> hasDir, dir |-> dir]

GetDispatch(self, args) ==
    LET no_format == (self.fmt = "None")
    IN  IF args.form = "list"
        THEN IF args.seq = <<>> THEN Dispatch("IndexError", args, TRUE, FALSE, 0)
             ELSE Dispatch("none", TupleArg(args.seq), TRUE, FALSE, 0)
        ELSE IF args.form \in {"int", "slice"}
             THEN Dispatch("none", args, no_format, FALSE, 0)
        ELSE IF args.seq = <<>> THEN Dispatch("IndexError", args, no_format, FALSE, 0)
        ELSE IF Len(args.seq) = self.nid
             THEN Dispatch("none", args, no_format, FALSE, 0)
        ELSE Dispatch("none", TupleArg(SubSeq(args.seq, 1, Len(args.seq) - 1)),
                      no_format, TRUE, args.seq[Len(args.seq)])

GetItem(self, args) ==
    LET d == GetDispatch(self, args)
    IN  IF d.err # "none" THEN Raise(d.err, <<>>)
        ELSE IF d.indices.form = "slice"
        THEN IF ~SliceInRange(self, d.indices)
             THEN Raise("IndexError",
                        <<self.sindex[1], self.sindex[1] + self.shape[1]>>)
             ELSE LET rows == SliceRows(SliceStart(self, d.indices),
                                        SliceStop(self, d.indices), d.indices)
                  IN  [Ok(0) EXCEPT !.rows = rows,
                                    !.arr = SubArray(self.comp, rows)]
        ELSE LET ind == CheckIndices(self, d.indices)
             IN  IF ind.kind # "ok" THEN ind
                 ELSE IF ~NpInBounds(self.comp.dims, ind.ind)
                 THEN Raise("IndexError", <<>>)
                 ELSE LET elem == self.comp.data[NpWrap(self.comp.dims, ind.ind)]
                      IN  IF d.no_format THEN [Ok(elem) EXCEPT !.ind = ind.ind]
                          ELSE [Ok(elem) EXCEPT !.ind = ind.ind,
                                                !.formatted = TRUE,
                                                !.fname = self.fmt,
                                                !.hasDir = d.hasDir,
                                                !.dir = d.dir]

(***************************************************************************)
(* ComponentNumpy.__setitem__                                              *)
(* A tuple whose length is not the number of indices leaves the local      *)
(* variable indices unassigned: its first use raises UnboundLocalError.    *)
(***************************************************************************)
SetDispatch(self, args) ==
    IF args.form = "list"
    THEN IF args.seq = <<>> THEN Dispatch("IndexError", args, TRUE, FALSE, 0)
         ELSE Dispatch("none", TupleArg(args.seq), TRUE, FALSE, 0)
    ELSE IF args.form \in {"int", "slice"}
         THEN Dispatch("none", args, TRUE, FALSE, 0)
    ELSE IF args.seq = <<>> THEN Dispatch("IndexError", args, TRUE, FALSE, 0)
    ELSE IF Len(args.seq) = self.nid
         THEN Dispatch("none", args, TRUE, FALSE, 0)
    ELSE Dispatch("UnboundLocalError", args, TRUE, FALSE, 0)

\* the outcome of the call and the storage after it
SetResult(out, comp) == [out |-> out, comp |-> comp]

SetItem(self, args, value) ==
    LET d == SetDispatch(self, args)
    IN  IF d.err # "none" THEN SetResult(Raise(d.err, <<>>), self.comp)
        ELSE IF d.indices.form = "slice"
        THEN IF ~SliceInRange(self, d.indices)
             THEN SetResult(Raise("IndexError",
                                  <<self.sindex[1], self.sindex[1] + self.shape[1]>>),
                            self.comp)
             ELSE LET rows == SliceRows(SliceStart(self, d.indices),
                                        SliceStop(self, d.indices), d.indices)
                  IN  IF ~Assignable(self.comp, rows, value)
                      THEN SetResult(Raise("ValueError", <<>>), self.comp)
                      ELSE SetResult([Ok(0) EXCEPT !.rows = rows],
                                     AssignRows(self.comp, rows, value))
        ELSE LET ind == CheckIndices(self, d.indices)
             IN  IF ind.kind # "ok" THEN SetResult(ind, self.comp)
                 ELSE IF ~NpInBounds(self.comp.dims, ind.ind)
                 THEN SetResult(Raise("IndexError", <<>>), self.comp)
                 ELSE IF value.isSeq
                 THEN SetResult(Raise("ValueError", <<>>), self.comp)
                 ELSE SetResult([Ok(0) EXCEPT !.ind = ind.ind],
                                [self.comp EXCEPT
                                    !.data[NpWrap(self.comp.dims, ind.ind)] = value.k])

(***************************************************************************)
(* The accessor as a state machine: one container c = objs[1], built by    *)
(* the constructor, then read and written through __getitem__,             *)
(* __setitem__ and _check_indices.  ret records the last call.             *)
(***************************************************************************)
\* the scalars written
Vals == {-4, 1}

\* the flat sequences written to slices
FlatVals == {<<7>>, <<0, 1, 2>>}

\* an extra trailing element of an index tuple (a format directive on reads)
ExtraIdx == {9}

\* the steps of a slice (None is always tried)
Steps == {2, -1}

\* the constructor calls that build the container
Containers ==
    { ComponentNumpy("ZZ", OneFrame(<<1, 2, 3>>), 2, NoShape, StartInt(0), "None"),
      ComponentNumpy("ZZ", OneFrame(<<1, 2, 3>>), 2, NoShape, StartSeq(<<1, 2>>), "None"),
      ComponentNumpy("ZZ", OneFrame(<<1, 2, 3>>), 1, NoShape, StartSeq(<<2>>), "None"),
      ComponentNumpy("QQ", OneFrame(<<1, 2>>), 2, GivenShape(<<2, 1>>),
                     StartSeq(<<-1, 1>>), "fmt"),
      ComponentNumpy("QQ", ManyFrames(<<(<<1, 2>>), (<<3, 4>>)>>), 3,
                     GivenShape(<<1, 2, 2>>), StartInt(1), "None"),
      ComponentNumpy("ZZ", OneFrame(<<1, 2>>), 1, NoShape, StartInt(-2), "fmt") }

\* the logical indices tried on axis i: its domain and one index beyond each end
AxisIdx(c, i) ==
    (c.sindex[i]..(c.sindex[i] + c.shape[i] - 1))
        \cup {c.sindex[i] - Margin, c.sindex[i] + c.shape[i] - 1 + Margin}

\* index tuples with one entry per axis, from axis i on
RECURSIVE TuplesFrom(_, _)
TuplesFrom(c, i) ==
    IF i > Len(c.shape) THEN {<<>>}
    ELSE {<<k>> \o t : k \in AxisIdx(c, i), t \in TuplesFrom(c, i + 1)}

\* index tuples of the right and of wrong lengths
IndexSeqs(c) ==
    LET full == TuplesFrom(c, 1)
    IN  full \cup {<<>>}
             \cup {SubSeq(t, 1, Len(t) - 1) : t \in full}
             \cup {t \o <<e>> : t \in full, e \in ExtraIdx}

IndexArgs(c) ==
    {TupleArg(t) : t \in IndexSeqs(c)}
        \cup {ListArg(t) : t \in TuplesFrom(c, 1) \cup {<<>>}}
        \cup {IntArg(k) : k \in AxisIdx(c, 1)}

\* slice bounds tried on axis 0: the integers from the first index of the
\* axis to one past its last, and one integer beyond each end
SliceBounds(c) ==
    (c.sindex[1]..(c.sindex[1] + c.shape[1]))
        \cup {c.sindex[1] - Margin, c.sindex[1] + c.shape[1] + Margin}

SliceArgs(c) ==
    {SliceArg(FALSE, 0, FALSE, 0, FALSE, 0)}
    \cup {SliceArg(TRUE, a, FALSE, 0, FALSE, 0) : a \in SliceBounds(c)}
    \cup {SliceArg(FALSE, 0, TRUE, b, FALSE, 0) : b \in SliceBounds(c)}
    \cup {SliceArg(TRUE, a, TRUE, b, FALSE, 0) :
              a \in SliceBounds(c), b \in SliceBounds(c)}
    \cup {SliceArg(TRUE, a, TRUE, b, TRUE, st) :
              a \in SliceBounds(c), b \in SliceBounds(c), st \in Steps}

AllArgs(c) == IndexArgs(c) \cup SliceArgs(c)

ScalarVals == {Scalar(k) : k \in Vals}

AllVals == ScalarVals \cup {Flat(s) : s \in FlatVals}

NoCall == [op |-> "none", a |-> IntArg(0), v |-> Scalar(0), out |-> Ok(0)]

Init ==
    /\ objs \in {<<c>> : c \in Containers}
    /\ ret = NoCall
    /\ nwrites = 0
    /\ heap = <<>>

\* A behaviour is a sequence of writes that succeed, followed by at most one
\* call that leaves the storage as it is (a read, a check, a failed write):
\* such a call changes nothing a later call depends on.
Open == ret.op = "none" \/ (ret.op = "set" /\ ret.out.kind = "ok")

\* the arguments and values a call is made with: index arguments and scalars,
\* or slices and flat sequences as well
ArgsOf(c, slices) == IF slices THEN AllArgs(c) ELSE IndexArgs(c)

ValsOf(slices) == IF slices THEN AllVals ELSE ScalarVals

WritesOf(slices) == IF slices THEN MaxSliceWrites ELSE MaxWrites

\* c[a]
GetItemCall(slices) ==
    /\ Open
    /\ \E a \in ArgsOf(objs[1], slices) :
        /\ ret' = [op |-> "get", a |-> a, v |-> Scalar(0),
                   out |-> GetItem(objs[1], a)]
        /\ UNCHANGED <<objs, nwrites, heap>>

\* c[a] = v
SetItemCall(slices) ==
    /\ Open
    /\ \E a \in ArgsOf(objs[1], slices), v \in ValsOf(slices) :
        LET r == SetItem(objs[1], a, v)
        IN  /\ r.out.kind = "ok" => nwrites < WritesOf(slices)
            /\ ret' = [op |-> "set", a |-> a, v |-> v, out |-> r.out]
            /\ objs' = [objs EXCEPT ![1].comp = r.comp]
            /\ nwrites' = IF r.out.kind = "ok" THEN nwrites + 1 ELSE nwrites
            /\ UNCHANGED heap

\* c._check_indices(a)
CheckIndicesCall ==
    /\ Open
    /\ \E a \in IndexArgs(objs[1]) :
        /\ ret' = [op |-> "check", a |-> a, v |-> Scalar(0),
                   out |-> CheckIndices(objs[1], a)]
        /\ UNCHANGED <<objs, nwrites, heap>>

Next ==
    \/ GetItemCall(TRUE)
    \/ SetItemCall(TRUE)
    \/ CheckIndicesCall

Spec == Init /\ [][Next]_vars

\* the accessor called with index arguments only (no slices) and scalars
NextIndex ==
    \/ GetItemCall(FALSE)
    \/ SetItemCall(FALSE)
    \/ CheckIndicesCall

SpecIndex == Init /\ [][NextIndex]_vars

(***************************************************************************)
(* Claims about index normalisation and the accessor.                      *)
(***************************************************************************)
\* idx has one integer per index and each lies in the domain of its axis
InDomain(self, idx) ==
    /\ Len(idx) = self.nid
    /\ \A i \in 1..Len(idx) :
          /\ self.sindex[i] <= idx[i]
          /\ idx[i] <= self.sindex[i] + self.shape[i] - 1

\* axis i of idx lies outside the domain of that axis
BadAxis(self, idx, i) ==
    idx[i] < self.sindex[i] \/ idx[i] > self.sindex[i] + self.shape[i] - 1

FirstBadAxis(self, idx) ==
    CHOOSE i \in 1..Len(idx) :
        BadAxis(self, idx, i) /\ \A j \in 1..(i - 1) : ~BadAxis(self, idx, j)

\* C1: set(idx, v) with a tuple idx of rank integers, each within the domain
\* of its axis, succeeds, overwrites exactly the storage entry at
\* idx[i] - startIndex[i] and leaves every other entry (and the metadata)
\* unchanged; a following get(idx) returns v, unformatted when the container
\* has no formatter or the raw form is used.
C1_SetOverwritesOneEntry ==
    [][ (/\ ret'.op = "set"
         /\ ret'.a.form = "tuple"
         /\ ~ret'.v.isSeq
         /\ InDomain(objs[1], ret'.a.seq))
        => LET idx == ret'.a.seq
               coord == [i \in 1..Len(idx) |-> idx[i] - objs[1].sindex[i]]
               g == GetItem(objs'[1], TupleArg(idx))
               raw == GetItem(objs'[1], ListArg(idx))
           IN  /\ ret'.out.kind = "ok"
               /\ coord \in DOMAIN objs[1].comp.data
               /\ objs'[1].comp.data =
                     [x \in DOMAIN objs[1].comp.data |->
                         IF x = coord THEN ret'.v.k ELSE objs[1].comp.data[x]]
               /\ objs'[1] = [objs[1] EXCEPT !.comp = objs'[1].comp]
               /\ objs'[1].comp.dims = objs[1].comp.dims
               /\ g.kind = "ok" /\ g.val = ret'.v.k
               /\ (objs[1].fmt = "None" => ~g.formatted)
               /\ raw.kind = "ok" /\ raw.val = ret'.v.k /\ ~raw.formatted
      ]_vars

\* a second write, on a container whose axes start at 1 and 2: the entry of
\* the first write is still there
C1_Witness ==
    /\ ret.op = "set" /\ ret.a.form = "tuple" /\ ret.out.kind = "ok"
    /\ objs[1].sindex = <<1, 2>>
    /\ ret.a.seq = <<3, 2>> /\ ret.v.k = -4
    /\ objs[1].comp.data[<<2, 0>>] = -4
    /\ objs[1].comp.data[<<0, 1>>] = 1
    /\ nwrites = 2

\* C2: on a rank-1 container with start index s and shape n, get(k) with a
\* bare integer k returns the storage entry k - s when s <= k <= s+n-1 and
\* fails with a range error otherwise; with s = 2, n = 3, after [0,1,2] is
\* assigned to the full slice, get(2) = 0, get(3) = 1, get(4) = 2 and get(5)
\* raises a range error.
C2_BareIntegerRead ==
    /\ (ret.op = "get" /\ ret.a.form = "int" /\ objs[1].nid = 1)
       => LET k == ret.a.seq[1]
              s == objs[1].sindex[1]
              n == objs[1].shape[1]
          IN  IF s <= k /\ k <= s + n - 1
              THEN ret.out.kind = "ok" /\ ret.out.val = objs[1].comp.data[<<k - s>>]
              ELSE ret.out.kind = "IndexError"
    /\ (/\ objs[1].sindex = <<2>> /\ objs[1].shape = <<3>>
        /\ ret.op = "set" /\ ret.out.kind = "ok"
        /\ ret.a = SliceArg(FALSE, 0, FALSE, 0, FALSE, 0)
        /\ ret.v = Flat(<<0, 1, 2>>))
       => /\ \A k \in 2..4 :
                /\ GetItem(objs[1], IntArg(k)).kind = "ok"
                /\ GetItem(objs[1], IntArg(k)).val = k - 2
          /\ GetItem(objs[1], IntArg(5)).kind = "IndexError"

\* C3: a tuple idx of rank integers with some idx[i] outside
\* [startIndex[i], startIndex[i]+shape[i]-1] makes index normalisation, get
\* and set fail with a range error that names the offending index and the
\* bounds of its own axis, and leaves the container unchanged; a tuple within
\* the bounds of every axis is not rejected as out of range.
C3_OutOfRangeIsRangeError ==
    [][ (/\ ret'.op \in {"get", "set", "check"}
         /\ ret'.a.form \in {"tuple", "list"}
         /\ Len(ret'.a.seq) = objs[1].nid)
        => LET idx == ret'.a.seq
           IN  IF InDomain(objs[1], idx)
               THEN ret'.out.kind # "IndexError"
               ELSE LET i == FirstBadAxis(objs[1], idx)
                    IN  /\ ret'.out.kind = "IndexError"
                        /\ ret'.out.info =
                              <<idx[i], objs[1].sindex[i],
                                objs[1].sindex[i] + objs[1].shape[i] - 1>>
                        /\ objs' = objs
      ]_vars

\* a failed write at (1, 1) on a container whose axes start at 1 and 2 (the
\* index is within the bounds of axis 0 and below those of axis 1), after a
\* write that succeeded
C3_Witness ==
    /\ ret.op = "set" /\ ret.a.form = "tuple" /\ ret.out.kind = "IndexError"
    /\ objs[1].sindex = <<1, 2>>
    /\ ret.a.seq = <<1, 1>>
    /\ ret.out.info = <<1, 2, 4>>
    /\ nwrites = 1
    /\ \E x \in DOMAIN objs[1].comp.data : objs[1].comp.data[x] # 0

\* C4: index normalisation called with a sequence whose length differs from
\* rank fails with the arity error (naming the expected and the actual
\* count), and set(args, v) with a tuple of integers whose length differs
\* from rank fails with the arity error too and leaves the storage unchanged.
C4_WrongLengthIsArityError ==
    [][ /\ (ret'.op = "check" /\ Len(ret'.a.seq) # objs[1].nid)
           => /\ ret'.out.kind = "ValueError"
              /\ ret'.out.info = <<objs[1].nid, Len(ret'.a.seq)>>
        /\ (ret'.op = "set" /\ ret'.a.form = "tuple"
               /\ Len(ret'.a.seq) # objs[1].nid)
           => /\ ret'.out.kind = "ValueError"
              /\ objs' = objs
      ]_vars

\* a given slice bound lies in [startIndex[0], startIndex[0]+shape[0]]
BoundGiven(self, has, b) ==
    ~has \/ (self.sindex[1] <= b /\ b <= self.sindex[1] + self.shape[1])

\* C5: a slice read or write on axis 0 is accepted exactly when every given
\* bound lies in [startIndex[0], startIndex[0]+shape[0]]; when accepted it
\* addresses the storage rows from start-startIndex[0] up to (not including)
\* stop-startIndex[0] with the step as given, and when a bound lies outside
\* it fails with a range error and the storage is unchanged.
C5_SliceBounds ==
    [][ (ret'.op \in {"get", "set"} /\ ret'.a.form = "slice")
        => LET a == ret'.a
               self == objs[1]
               n == self.shape[1]
               start == IF a.hasStart THEN a.start - self.sindex[1] ELSE 0
               stop == IF a.hasStop THEN a.stop - self.sindex[1] ELSE n
               rows == RowsFrom(start, stop, IF a.hasStep THEN a.step ELSE 1)
           IN  IF BoundGiven(self, a.hasStart, a.start)
                    /\ BoundGiven(self, a.hasStop, a.stop)
               THEN /\ ret'.out.kind # "IndexError"
                    /\ ret'.out.kind = "ok" => ret'.out.rows = rows
                    /\ \A x \in DOMAIN self.comp.data :
                          x[1] \notin Range(rows)
                             => objs'[1].comp.data[x] = self.comp.data[x]
               ELSE /\ ret'.out.kind = "IndexError"
                    /\ objs' = objs
      ]_vars

(***************************************************************************)
(* numpy's elementwise arithmetic with broadcasting.                       *)
(***************************************************************************)
\* dimension i (of N, right-aligned) of an array of dimensions dims
NpDimAt(dims, N, i) ==
    LET j == Len(dims) - N + i IN IF j >= 1 THEN dims[j] ELSE 1

NpCompatible(d1, d2) ==
    LET N == Max2(Len(d1), Len(d2))
    IN  \A i \in 1..N :
            \/ NpDimAt(d1, N, i) = NpDimAt(d2, N, i)
            \/ NpDimAt(d1, N, i) = 1
            \/ NpDimAt(d2, N, i) = 1

NpBroadcastDims(d1, d2) ==
    LET N == Max2(Len(d1), Len(d2))
    IN  [i \in 1..N |->
            IF NpDimAt(d1, N, i) = 1 THEN NpDimAt(d2, N, i) ELSE NpDimAt(d1, N, i)]

\* the entry of an array of dimensions dims that coordinate x of the
\* broadcast result reads
NpProject(dims, x) ==
    [j \in 1..Len(dims) |->
        IF dims[j] = 1 THEN 0 ELSE x[Len(x) - Len(dims) + j]]

\* the elementwise operators used: + and *
Plus == "+"

Times == "*"

\* and /, //, % and **
DivOp == "/"

FloorOp == "//"

ModOp == "%"

PowOp == "**"

\* x ** n for an exponent n >= 0 (numpy gives 1 for 0 ** 0)
RECURSIVE IntPower(_, _)
IntPower(x, n) == IF n = 0 THEN 1 ELSE x * IntPower(x, n - 1)

\* The float64 result of x op y is an integer the model can hold: a quotient
\* is exact, a divisor is not zero (numpy gives inf or nan there, with a
\* warning and no exception), an exponent is not negative.
NpExact(op, x, y) ==
    IF op = DivOp THEN y # 0 /\ x = y * (x \div y)
    ELSE IF op \in {FloorOp, ModOp} THEN y # 0
    ELSE IF op = PowOp THEN y >= 0
    ELSE TRUE

\* x op y; // rounds down and % takes the sign of the divisor, as numpy's do
NpApply(op, x, y) ==
    IF op = Plus THEN x + y
    ELSE IF op = DivOp \/ op = FloorOp THEN x \div y
    ELSE IF op = ModOp THEN x - y * (x \div y)
    ELSE IF op = PowOp THEN IntPower(x, y)
    ELSE x * y

\* a op b, for arrays of compatible dimensions
NpBinary(op, a, b) ==
    LET dims == NpBroadcastDims(a.dims, b.dims)
    IN  [dims |-> dims,
         data |-> [x \in Coords(dims) |->
                     NpApply(op, a.data[NpProject(a.dims, x)],
                                 b.data[NpProject(b.dims, x)])]]

\* a op k, for a scalar k
NpScalar(op, a, k) ==
    [dims |-> a.dims, data |-> [x \in DOMAIN a.data |-> NpApply(op, a.data[x], k)]]

NpNeg(a) == [dims |-> a.dims, data |-> [x \in DOMAIN a.data |-> 0 - a.data[x]]]

\* np.all(a == b), for arrays of compatible dimensions
NpAllEqual(a, b) ==
    \A x \in Coords(NpBroadcastDims(a.dims, b.dims)) :
        a.data[NpProject(a.dims, x)] = b.data[NpProject(b.dims, x)]

\* np.all(a == 0)
NpAllZero(a) == \A x \in DOMAIN a.data : a.data[x] = 0

(***************************************************************************)
(* Operands and outcomes of the operators.                                 *)
(*   an operand is an integer, a container, or something else              *)
(***************************************************************************)
NoObj ==
    [ring |-> "", frame |-> <<>>, nid |-> 0, shape |-> <<>>, sindex |-> <<>>,
     fmt |-> "None", comp |-> NoArr]

IntOp(k) == [kind |-> "int", k |-> k, obj |-> NoObj]
ObjOp(c) == [kind |-> "obj", k |-> 0, obj |-> c]
OtherOp == [kind |-> "other", k |-> 0, obj |-> NoObj]

OpOutcome(kind, res, bool, info) ==
    [kind |-> kind, res |-> res, bool |-> bool, info |-> info]

Returns(res) == OpOutcome("ok", res, FALSE, <<>>)
ReturnsBool(b) == OpOutcome("ok", NoObj, b, <<>>)
Raises(kind, info) == OpOutcome(kind, NoObj, FALSE, info)

(***************************************************************************)
(* ComponentNumpy._new_instance, copy                                      *)
(***************************************************************************)
NewInstance(self) ==
    ComponentNumpy(self.ring, ManyFrames(self.frame), self.nid,
                   GivenShape(self.shape), StartSeq(self.sindex), self.fmt)

Copy(self) == [NewInstance(self) EXCEPT !.comp = self.comp]

(***************************************************************************)
(* ComponentNumpy._broadcast                                               *)
(* frame is the order in which tuple(set(...)) lists the frames of the two *)
(* operands: the order of a set's elements is not determined.              *)
(***************************************************************************)
\* a variant that keeps the dimension of self where it is 1
RECURSIVE BroadcastLoopKeepsSelf(_, _, _, _)
BroadcastLoopKeepsSelf(s_shape, o_shape, i, shape) ==
    IF i < 1 THEN [ok |-> TRUE, shape |-> shape]
    ELSE LET N == Len(shape)
             n1 == Len(s_shape) - N + i
             d1 == IF n1 >= 1 THEN s_shape[n1] ELSE 1
             n2 == Len(o_shape) - N + i
             d2 == IF n2 >= 1 THEN o_shape[n2] ELSE 1
         IN  IF d1 = 1 \/ d2 = 1 \/ d1 = d2
             THEN BroadcastLoopKeepsSelf(s_shape, o_shape, i - 1,
                                         [shape EXCEPT ![i] = d1])
             ELSE [ok |-> FALSE, shape |-> shape]

RECURSIVE BroadcastLoop(_, _, _, _)
BroadcastLoop(s_shape, o_shape, i, shape) ==
    IF i < 1 THEN [ok |-> TRUE, shape |-> shape]
    ELSE LET N == Len(shape)
             n1 == Len(s_shape) - N + i
             d1 == IF n1 >= 1 THEN s_shape[n1] ELSE 1
             n2 == Len(o_shape) - N + i
             d2 == IF n2 >= 1 THEN o_shape[n2] ELSE 1
         IN  IF d1 = 1
             THEN BroadcastLoop(s_shape, o_shape, i - 1, [shape EXCEPT ![i] = d2])
             ELSE IF d2 = 1
             THEN BroadcastLoop(s_shape, o_shape, i - 1, [shape EXCEPT ![i] = d1])
             ELSE IF d1 = d2
             THEN BroadcastLoop(s_shape, o_shape, i - 1, [shape EXCEPT ![i] = d1])
             ELSE [ok |-> FALSE, shape |-> shape]

BroadcastShapeKeepsSelf(s_shape, o_shape) ==
    LET N == Max2(Len(s_shape), Len(o_shape))
    IN  BroadcastLoopKeepsSelf(s_shape, o_shape, N, Repeat(0, N))

BroadcastShape(s_shape, o_shape) ==
    LET N == Max2(Len(s_shape), Len(o_shape))
    IN  BroadcastLoop(s_shape, o_shape, N, Repeat(0, N))

\* the orders in which the frames of two containers may be listed
FrameOrders(self, other) ==
    LET S == Range(self.frame) \cup Range(other.frame)
    IN  {f \in [1..Cardinality(S) -> S] : Range(f) = S}

\* a variant that gives the result the rank of self
BroadcastKeepsRank(self, other, frame) ==
    LET r == BroadcastShape(self.shape, other.shape)
    IN  IF ~r.ok THEN Raises("ValueError", <<self.shape, other.shape>>)
        ELSE Returns(ComponentNumpy(self.ring, ManyFrames(frame), self.nid,
                                    GivenShape(r.shape), StartInt(0),
                                    IF self.fmt = other.fmt THEN self.fmt
                                    ELSE "None"))

Broadcast(self, other, frame) ==
    LET r == BroadcastShape(self.shape, other.shape)
    IN  IF ~r.ok THEN Raises("ValueError", <<self.shape, other.shape>>)
        ELSE Returns(ComponentNumpy(self.ring, ManyFrames(frame), Len(r.shape),
                                    GivenShape(r.shape), StartInt(0),
                                    IF self.fmt = other.fmt THEN self.fmt
                                    ELSE "None"))

(***************************************************************************)
(* Arithmetic operators.                                                   *)
(***************************************************************************)
\* __pos__
Pos(self) == Copy(self)

\* __neg__
Neg(self) == [NewInstance(self) EXCEPT !.comp = NpNeg(self.comp)]

\* a variant of __add__ that adds an integer to every entry
AddScalarBroadcasts(self, other, frame) ==
    IF other.kind = "int"
    THEN Returns([Copy(self) EXCEPT !.comp = NpScalar(Plus, self.comp, other.k)])
    ELSE IF other.kind # "obj" THEN Raises("TypeError", <<>>)
    ELSE IF self.shape # other.obj.shape
    THEN LET b == Broadcast(self, other.obj, frame)
         IN  IF b.kind # "ok" THEN b
             ELSE Returns([b.res EXCEPT
                              !.comp = NpBinary(Plus, self.comp, other.obj.comp)])
    ELSE Returns([Copy(self) EXCEPT
                     !.comp = NpBinary(Plus, self.comp, other.obj.comp)])

\* __add__
Add(self, other, frame) ==
    IF other.kind = "int" /\ other.k = 0 THEN Returns(Pos(self))
    ELSE IF other.kind # "obj" THEN Raises("TypeError", <<>>)
    ELSE IF self.shape # other.obj.shape
    THEN LET b == Broadcast(self, other.obj, frame)
         IN  IF b.kind # "ok" THEN b
             ELSE Returns([b.res EXCEPT
                              !.comp = NpBinary(Plus, self.comp, other.obj.comp)])
    ELSE Returns([Copy(self) EXCEPT
                     !.comp = NpBinary(Plus, self.comp, other.obj.comp)])

\* __radd__
Radd(self, other, frame) == Add(self, other, frame)

\* -other, for an operand (an integer or a container)
NegOperand(other) ==
    IF other.kind = "int" THEN IntOp(0 - other.k)
    ELSE IF other.kind = "obj" THEN ObjOp(Neg(other.obj))
    ELSE OtherOp

\* __sub__
Sub(self, other, frame) ==
    IF other.kind = "int" /\ other.k = 0 THEN Returns(Pos(self))
    ELSE Add(self, NegOperand(other), frame)

\* a variant of __rsub__ that forgets to negate self
RsubNoNeg(self, other, frame) == Add(self, other, frame)

\* __rsub__
Rsub(self, other, frame) == Add(Neg(self), other, frame)

\* a variant of __mul__ that drops the factor of a scalar product
MulDropsScalar(self, other, frame) ==
    IF other.kind = "int"
    THEN Returns([Copy(self) EXCEPT !.comp = NpScalar(Plus, self.comp, 0)])
    ELSE IF other.kind # "obj" THEN Raises("AttributeError", <<>>)
    ELSE IF self.shape = other.obj.shape
    THEN Returns([Copy(self) EXCEPT
                     !.comp = NpBinary(Times, self.comp, other.obj.comp)])
    ELSE LET b == Broadcast(self, other.obj, frame)
         IN  IF b.kind # "ok" THEN b
             ELSE Returns([b.res EXCEPT
                              !.comp = NpBinary(Times, self.comp, other.obj.comp)])

\* __mul__
Mul(self, other, frame) ==
    IF other.kind = "int"
    THEN Returns([Copy(self) EXCEPT !.comp = NpScalar(Times, self.comp, other.k)])
    ELSE IF other.kind # "obj" THEN Raises("AttributeError", <<>>)
    ELSE IF self.shape = other.obj.shape
    THEN Returns([Copy(self) EXCEPT
                     !.comp = NpBinary(Times, self.comp, other.obj.comp)])
    ELSE LET b == Broadcast(self, other.obj, frame)
         IN  IF b.kind # "ok" THEN b
             ELSE Returns([b.res EXCEPT
                              !.comp = NpBinary(Times, self.comp, other.obj.comp)])

\* __rmul__
Rmul(self, other, frame) == Mul(self, other, frame)

(***************************************************************************)
(* ComponentNumpy.__truediv__, __floordiv__, __mod__, __pow__, __abs__     *)
(* The four binary methods have one body, up to the numpy operator.        *)
(***************************************************************************)
Elementwise(op, self, other, frame) ==
    IF other.kind = "int"
    THEN Returns([Copy(self) EXCEPT !.comp = NpScalar(op, self.comp, other.k)])
    ELSE IF other.kind # "obj" THEN Raises("AttributeError", <<>>)
    ELSE IF self.shape = other.obj.shape
    THEN Returns([Copy(self) EXCEPT
                     !.comp = NpBinary(op, self.comp, other.obj.comp)])
    ELSE LET b == Broadcast(self, other.obj, frame)
         IN  IF b.kind # "ok" THEN b
             ELSE Returns([b.res EXCEPT
                              !.comp = NpBinary(op, self.comp, other.obj.comp)])

Truediv(self, other, frame) == Elementwise(DivOp, self, other, frame)

Floordiv(self, other, frame) == Elementwise(FloorOp, self, other, frame)

Mod(self, other, frame) == Elementwise(ModOp, self, other, frame)

Pow(self, other, frame) == Elementwise(PowOp, self, other, frame)

\* np.absolute(a)
NpAbsolute(a) ==
    [dims |-> a.dims,
     data |-> [x \in DOMAIN a.data |->
                 IF a.data[x] < 0 THEN 0 - a.data[x] ELSE a.data[x]]]

Abs(self) ==
    IF \A x \in DOMAIN self.comp.data : self.comp.data[x] >= 0 THEN Copy(self)
    ELSE [Copy(self) EXCEPT !.comp = NpAbsolute(Copy(self).comp)]

\* the entries of self op other are all integers the model can hold
ExactOperands(op, self, other) ==
    IF other.kind = "int"
    THEN \A x \in DOMAIN self.comp.data : NpExact(op, self.comp.data[x], other.k)
    ELSE IF other.kind # "obj" THEN TRUE
    ELSE IF ~NpCompatible(self.comp.dims, other.obj.comp.dims) THEN TRUE
    ELSE \A x \in Coords(NpBroadcastDims(self.comp.dims, other.obj.comp.dims)) :
            NpExact(op, self.comp.data[NpProject(self.comp.dims, x)],
                        other.obj.comp.data[NpProject(other.obj.comp.dims, x)])

(***************************************************************************)
(* ComponentNumpy.__eq__                                                   *)
(* The outcomes of self == other.  When the two storages have dimensions   *)
(* numpy cannot broadcast, the elementwise comparison gives False or       *)
(* raises, depending on the numpy release: both are outcomes.              *)
(***************************************************************************)
Eq(self, other) ==
    IF other.kind = "int"
    THEN IF other.k = 0 THEN {ReturnsBool(NpAllZero(self.comp))}
         ELSE {Raises("TypeError", <<>>)}
    ELSE IF other.kind # "obj" THEN {Raises("AttributeError", <<>>)}
    ELSE IF Range(other.obj.frame) # Range(self.frame) THEN {ReturnsBool(FALSE)}
    ELSE IF other.obj.nid # self.nid THEN {ReturnsBool(FALSE)}
    ELSE IF other.obj.sindex # self.sindex THEN {ReturnsBool(FALSE)}
    ELSE IF other.obj.fmt # self.fmt THEN {ReturnsBool(FALSE)}
    ELSE IF NpCompatible(other.obj.comp.dims, self.comp.dims)
    THEN {ReturnsBool(NpAllEqual(other.obj.comp, self.comp))}
    ELSE {ReturnsBool(FALSE), Raises("ValueError", <<>>)}

\* self == other is true, whatever the numpy release
EqTrue(self, other) == Eq(self, ObjOp(other)) = {ReturnsBool(TRUE)}

(***************************************************************************)
(* _broadcast as a state machine: two zero-initialised containers of any   *)
(* two shapes within the bounds, and one call.                             *)
(***************************************************************************)
RECURSIVE ShapesOfLen(_)
ShapesOfLen(n) ==
    IF n = 0 THEN {<<>>}
    ELSE {<<d>> \o t : d \in 1..BMaxDim, t \in ShapesOfLen(n - 1)}

BShapes == UNION {ShapesOfLen(n) : n \in 1..BMaxRank}

BContainer(shape) ==
    ComponentNumpy("ZZ", OneFrame(<<1, 2, 3>>), Len(shape), GivenShape(shape),
                   StartInt(0), "None")

NoOpCall == [op |-> "none", other |-> IntOp(0), frame |-> <<>>, out |-> Returns(NoObj)]

InitBroadcast ==
    /\ objs \in {<<BContainer(s1), BContainer(s2)>> : s1 \in BShapes, s2 \in BShapes}
    /\ ret = NoOpCall
    /\ nwrites = 0
    /\ heap = <<>>

\* objs[1]._broadcast(objs[2])
BroadcastCall ==
    /\ ret.op = "none"
    /\ Len(objs) = 2
    /\ \E f \in FrameOrders(objs[1], objs[2]) :
          ret' = [op |-> "broadcast", other |-> ObjOp(objs[2]), frame |-> f,
                  out |-> Broadcast(objs[1], objs[2], f)]
    /\ UNCHANGED <<objs, nwrites, heap>>

NextBroadcast == BroadcastCall

SpecBroadcast == InitBroadcast /\ [][NextBroadcast]_vars

(***************************************************************************)
(* The operators as a state machine: one container, or two, with any       *)
(* metadata and contents below, and one call on the first.                 *)
(***************************************************************************)
\* the entries of the operands
DataVals == {-1, 0, 2}

\* containers as the constructor builds them
ArithShells ==
    { ComponentNumpy("ZZ", OneFrame(<<1, 2>>), 1, NoShape, StartInt(0), "None"),
      ComponentNumpy("ZZ", OneFrame(<<1, 2>>), 1, NoShape, StartInt(1), "fmt"),
      ComponentNumpy("ZZ", OneFrame(<<1, 2>>), 1, NoShape, StartInt(1), "None"),
      ComponentNumpy("ZZ", OneFrame(<<3, 4>>), 1, NoShape, StartInt(0), "None"),
      ComponentNumpy("ZZ", OneFrame(<<1, 2>>), 1, GivenShape(<<1>>), StartInt(0), "None"),
      ComponentNumpy("ZZ", OneFrame(<<1, 2>>), 1, GivenShape(<<3>>), StartInt(0), "None"),
      ComponentNumpy("ZZ", OneFrame(<<1, 2>>), 2, GivenShape(<<1, 2>>), StartInt(0), "None"),
      ComponentNumpy("ZZ", ManyFrames(<<(<<1, 2>>), (<<3, 4>>)>>), 1, NoShape,
                     StartInt(0), "None"),
      ComponentNumpy("ZZ", ManyFrames(<<(<<3, 4>>), (<<1, 2>>)>>), 1, NoShape,
                     StartInt(0), "None") }

\* a container after its entries have been assigned (c[:] = ...)
Filled(c, data) == [c EXCEPT !.comp.data = data]

ArithContainers ==
    UNION {{Filled(c, d) : d \in [Coords(c.shape) -> DataVals]} : c \in ArithShells}

Scalars == (0 - MaxScalar)..MaxScalar

InitArith ==
    /\ objs \in {<<a>> : a \in ArithContainers}
                   \cup {<<a, b>> : a \in ArithContainers, b \in ArithContainers}
    /\ ret = NoOpCall
    /\ nwrites = 0
    /\ heap = <<>>

\* the operands of a call on objs[1]: an integer or an object that is neither
\* an integer nor a container (None, a string, a float) when it is alone, the
\* other container (with an order of the frames of the two) when there are two
Operands ==
    IF Len(objs) = 1 THEN {<<IntOp(k), <<>>>> : k \in Scalars} \cup {<<OtherOp, <<>>>>}
    ELSE {<<ObjOp(objs[2]), f>> : f \in FrameOrders(objs[1], objs[2])}

Called(op, o, out) ==
    /\ ret' = [op |-> op, other |-> o[1], frame |-> o[2], out |-> out]
    /\ UNCHANGED <<objs, nwrites, heap>>

PosCall == ret.op = "none" /\ Len(objs) = 1
              /\ Called("pos", <<IntOp(0), <<>>>>, Returns(Pos(objs[1])))

NegCall == ret.op = "none" /\ Len(objs) = 1
              /\ Called("neg", <<IntOp(0), <<>>>>, Returns(Neg(objs[1])))

AddCall == ret.op = "none"
              /\ \E o \in Operands : Called("add", o, Add(objs[1], o[1], o[2]))

RaddCall == ret.op = "none"
              /\ \E o \in Operands : Called("radd", o, Radd(objs[1], o[1], o[2]))

SubCall == ret.op = "none"
              /\ \E o \in Operands : Called("sub", o, Sub(objs[1], o[1], o[2]))

RsubCall == ret.op = "none"
              /\ \E o \in Operands : Called("rsub", o, Rsub(objs[1], o[1], o[2]))

MulCall == ret.op = "none"
              /\ \E o \in Operands : Called("mul", o, Mul(objs[1], o[1], o[2]))

RmulCall == ret.op = "none"
              /\ \E o \in Operands : Called("rmul", o, Rmul(objs[1], o[1], o[2]))

EqCall == ret.op = "none"
              /\ \E o \in Operands :
                    \E out \in Eq(objs[1], o[1]) : Called("eq", <<o[1], <<>>>>, out)

NextArith ==
    \/ PosCall \/ NegCall
    \/ AddCall \/ RaddCall \/ SubCall \/ RsubCall
    \/ MulCall \/ RmulCall
    \/ EqCall
    \/ BroadcastCall

SpecArith == InitArith /\ [][NextArith]_vars

(***************************************************************************)
(* Claims about broadcasting, arithmetic and equality.                     *)
(***************************************************************************)
\* the dimension of shape at position i of N, the shapes being right-aligned
\* and a missing leading axis counting as 1
AlignedDim(shape, N, i) ==
    IF i - (N - Len(shape)) >= 1 THEN shape[i - (N - Len(shape))] ELSE 1

\* C6: A._broadcast(B) returns a container of rank N = max(rankA, rankB) whose
\* shape has, at each right-aligned position, dB if dA = 1, else dA if dB = 1,
\* else dA if dA = dB; it fails with an error naming both shapes when some
\* position has dA # dB and neither is 1; B._broadcast(A) gives the same
\* shape.  (3,3) with (1,3,3) gives (1,3,3); (3,3) with (1,2,3) fails.
C6_BroadcastShape ==
    ret.op = "broadcast"
    => LET A == objs[1]
           B == objs[2]
           N == Max2(A.nid, B.nid)
           dA(i) == AlignedDim(A.shape, N, i)
           dB(i) == AlignedDim(B.shape, N, i)
           rev == Broadcast(B, A, ret.frame)
       IN  IF \A i \in 1..N : dA(i) = 1 \/ dB(i) = 1 \/ dA(i) = dB(i)
           THEN /\ ret.out.kind = "ok"
                /\ ret.out.res.nid = N
                /\ ret.out.res.shape =
                      [i \in 1..N |-> IF dA(i) = 1 THEN dB(i) ELSE dA(i)]
                /\ rev.kind = "ok"
                /\ rev.res.shape = ret.out.res.shape
           ELSE /\ ret.out.kind = "ValueError"
                /\ ret.out.info = <<A.shape, B.shape>>
                /\ rev.kind = "ValueError"

\* (1,3,3) broadcast with (3,3): the result has the shape (1,3,3)
C6_Witness ==
    /\ ret.op = "broadcast"
    /\ objs[1].shape = <<1, 3, 3>> /\ objs[2].shape = <<3, 3>>
    /\ ret.out.kind = "ok" /\ ret.out.res.shape = <<1, 3, 3>>

\* C7: A + 0 == A, 0 + A == A, A - 0 == A and 0 - A == -A are all true, for
\* the literal integer zero and any container A.
C7_ZeroIsNeutral ==
    /\ (ret.op \in {"add", "radd", "sub"} /\ ret.other = IntOp(0))
       => ret.out.kind = "ok" /\ EqTrue(ret.out.res, objs[1])
    /\ (ret.op = "rsub" /\ ret.other = IntOp(0))
       => ret.out.kind = "ok" /\ EqTrue(ret.out.res, Neg(objs[1]))

\* 0 - A for a container with a formatter, a start index of 1 and the
\* entries (2, -1)
C7_Witness ==
    /\ ret.op = "rsub" /\ ret.other = IntOp(0) /\ ret.out.kind = "ok"
    /\ objs[1].fmt = "fmt" /\ objs[1].sindex = <<1>>
    /\ objs[1].comp.data = (<<0>> :> 2) @@ (<<1>> :> -1)
    /\ ret.out.res.comp.data = (<<0>> :> -2) @@ (<<1>> :> 1)

\* the metadata of two containers agree
SameMeta(a, b) ==
    /\ a.ring = b.ring /\ a.frame = b.frame /\ a.nid = b.nid
    /\ a.shape = b.shape /\ a.sindex = b.sindex /\ a.fmt = b.fmt

\* C8 as stated: for a nonzero integer k, A + k and A - k return a new
\* container with the shape and metadata of A whose entries are A[i] + k and
\* A[i] - k; a scalar operand is never rejected.
C8_ScalarAddBroadcasts ==
    (ret.op \in {"add", "sub"} /\ ret.other.kind = "int" /\ ret.other.k # 0)
    => /\ ret.out.kind = "ok"
       /\ SameMeta(ret.out.res, objs[1])
       /\ ret.out.res.comp.dims = objs[1].comp.dims
       /\ \A x \in DOMAIN objs[1].comp.data :
             ret.out.res.comp.data[x] =
                IF ret.op = "add" THEN objs[1].comp.data[x] + ret.other.k
                ELSE objs[1].comp.data[x] - ret.other.k

\* C8 as amended: for a nonzero integer k, A + k and A - k fail with a type
\* error and return no container; of the integers, only the literal zero is
\* accepted by + and -, and then the result is a copy of A.
C8_ScalarAddRejected ==
    (ret.op \in {"add", "sub"} /\ ret.other.kind = "int")
    => IF ret.other.k # 0
       THEN ret.out.kind = "TypeError" /\ ret.out.res = NoObj
       ELSE ret.out.kind = "ok" /\ ret.out.res = objs[1]

\* A - 2 on a container with nonzero entries
C8_Witness ==
    /\ ret.op = "sub" /\ ret.other = IntOp(2)
    /\ ret.out.kind = "TypeError"
    /\ objs[1].comp.data = (<<0>> :> 2) @@ (<<1>> :> -1)

Load(h, o) == [o EXCEPT !.comp = h[o.comp]]

\* a variant of np.copy that hands back the buffer it was given
HeapCopyShares(h, at) == [heap |-> h, at |-> at]

\* np.copy(self._comp): a new buffer with the entries of the buffer at `at`
HeapCopy(h, at) == [heap |-> Append(h, h[at]), at |-> Len(h) + 1]

\* a numpy expression (a + b, a * k, -a, np.absolute(a), np.zeros(shape))
\* evaluates into a new buffer, which the method assigns to ret._comp
HeapNew(h, arr) == [heap |-> Append(h, arr), at |-> Len(h) + 1]

\* the compound assignments return what the binary operator returns; the
\* interpreter then binds the left-hand name to that object
Iadd(self, other, frame) == Add(self, other, frame)

Isub(self, other, frame) == Sub(self, other, frame)

Imul(self, other, frame) == Mul(self, other, frame)

Itruediv(self, other, frame) == Truediv(self, other, frame)

Ifloordiv(self, other, frame) == Floordiv(self, other, frame)

Ipow(self, other, frame) == Pow(self, other, frame)

Imod(self, other, frame) == Mod(self, other, frame)

UnaryOps == {"copy", "pos", "neg", "abs"}

BinaryOps ==
    {"add", "radd", "sub", "rsub", "mul", "rmul",
     "truediv", "floordiv", "mod", "pow",
     "iadd", "isub", "imul", "itruediv", "ifloordiv", "imod", "ipow",
     "broadcast"}

\* the numpy operator a method applies to the entries
OpTag(op) ==
    IF op \in {"truediv", "itruediv"} THEN DivOp
    ELSE IF op \in {"floordiv", "ifloordiv"} THEN FloorOp
    ELSE IF op \in {"mod", "imod"} THEN ModOp
    ELSE IF op \in {"pow", "ipow"} THEN PowOp
    ELSE IF op \in {"mul", "rmul", "imul"} THEN Times
    ELSE Plus

\* the outcome of the method op of self on the operand other
OpValue(op, self, other, frame) ==
    CASE op = "copy" -> Returns(Copy(self))
      [] op = "pos" -> Returns(Pos(self))
      [] op = "neg" -> Returns(Neg(self))
      [] op = "abs" -> Returns(Abs(self))
      [] op = "add" -> Add(self, other, frame)
      [] op = "radd" -> Radd(self, other, frame)
      [] op = "sub" -> Sub(self, other, frame)
      [] op = "rsub" -> Rsub(self, other, frame)
      [] op = "mul" -> Mul(self, other, frame)
      [] op = "rmul" -> Rmul(self, other, frame)
      [] op = "truediv" -> Truediv(self, other, frame)
      [] op = "floordiv" -> Floordiv(self, other, frame)
      [] op = "mod" -> Mod(self, other, frame)
      [] op = "pow" -> Pow(self, other, frame)
      [] op = "iadd" -> Iadd(self, other, frame)
      [] op = "isub" -> Isub(self, other, frame)
      [] op = "imul" -> Imul(self, other, frame)
      [] op = "itruediv" -> Itruediv(self, other, frame)
      [] op = "ifloordiv" -> Ifloordiv(self, other, frame)
      [] op = "imod" -> Imod(self, other, frame)
      [] op = "ipow" -> Ipow(self, other, frame)
      [] op = "broadcast" ->
            IF other.kind = "obj" THEN Broadcast(self, other.obj, frame)
            ELSE Raises("AttributeError", <<>>)

\* the method returns self.copy() as it is: copy, +self, self + 0, self - 0,
\* and abs(self) when no entry is negative
ReturnsCopy(op, self, other) ==
    \/ op \in {"copy", "pos"}
    \/ op \in {"add", "radd", "iadd", "sub", "isub"}
          /\ other.kind = "int" /\ other.k = 0
    \/ op = "abs" /\ \A x \in DOMAIN self.comp.data : self.comp.data[x] >= 0

\* the containers the operators are called on
HeapContainers ==
    { Filled(ComponentNumpy("ZZ", OneFrame(<<1, 2>>), 1, NoShape, StartInt(1), "fmt"),
             (<<0>> :> -4) @@ (<<1>> :> 2)),
      Filled(ComponentNumpy("ZZ", OneFrame(<<1, 2>>), 1, NoShape, StartInt(0), "None"),
             (<<0>> :> 2) @@ (<<1>> :> 1)),
      Filled(ComponentNumpy("ZZ", OneFrame(<<3, 4>>), 1, GivenShape(<<1>>),
                            StartInt(0), "None"),
             (<<0>> :> 2)),
      Filled(ComponentNumpy("ZZ", OneFrame(<<1, 2>>), 1, GivenShape(<<3>>),
                            StartInt(0), "None"),
             (<<0>> :> 0) @@ (<<1>> :> 1) @@ (<<2>> :> -1)) }

NoHeapCall == [op |-> "none", self |-> 0, other |-> 0, made |-> "none", out |-> "ok"]

\* two containers, each with a buffer of its own
InitHeap ==
    /\ \E a \in HeapContainers, b \in HeapContainers :
          /\ objs = <<[a EXCEPT !.comp = 1], [b EXCEPT !.comp = 2]>>
          /\ heap = <<a.comp, b.comp>>
    /\ ret = NoHeapCall
    /\ nwrites = 0

\* the operands of a binary method: an integer, an object that is neither an
\* integer nor a container, or one of the containers (self included), given
\* as <<operand, index of the container or 0, order of the frames>>
HeapOperands(i) ==
    {<<IntOp(k), 0, <<>>>> : k \in {0, 2, -1}} \cup {<<OtherOp, 0, <<>>>>}
    \cup UNION {{<<ObjOp(Load(heap, objs[j])), j, f>> :
                     f \in FrameOrders(objs[i], objs[j])} : j \in 1..Len(objs)}

\* objs[i].op(other): a result is a new container
HeapCall(op) ==
    /\ ret.op = "none"
    /\ \E i \in 1..Len(objs) :
        \E o \in IF op \in UnaryOps THEN {<<IntOp(0), 0, <<>>>>} ELSE HeapOperands(i) :
          LET self == Load(heap, objs[i])
          IN  /\ ExactOperands(OpTag(op), self, o[1])
              /\ LET r == OpValue(op, self, o[1], o[3])
                      st == IF ReturnsCopy(op, self, o[1])
                            THEN HeapCopy(heap, objs[i].comp)
                            ELSE HeapNew(heap, r.res.comp)
                 IN  /\ IF r.kind = "ok"
                        THEN /\ heap' = st.heap
                             /\ objs' = Append(objs, [r.res EXCEPT !.comp = st.at])
                        ELSE UNCHANGED <<objs, heap>>
                     /\ ret' = [op |-> op, self |-> i, other |-> o[2], made |-> op,
                                out |-> r.kind]
    /\ UNCHANGED nwrites

\* the values and the indices written after the call
HeapVals == {Scalar(7)}

HeapArgs(c) == {TupleArg(t) : t \in TuplesFrom(c, 1)}

\* objs[i][a] = v, on any of the containers
HeapSetItemCall ==
    /\ ret.op # "none" /\ ret.out = "ok"
    /\ \E i \in 1..Len(objs) :
        \E a \in HeapArgs(Load(heap, objs[i])), v \in HeapVals :
          LET r == SetItem(Load(heap, objs[i]), a, v)
          IN  /\ r.out.kind = "ok" => nwrites < MaxSliceWrites
              /\ heap' = [heap EXCEPT ![objs[i].comp] = r.comp]
              /\ ret' = [op |-> "set", self |-> i, other |-> 0, made |-> ret.made,
                         out |-> r.out.kind]
              /\ nwrites' = IF r.out.kind = "ok" THEN nwrites + 1 ELSE nwrites
              /\ UNCHANGED objs

NextHeap ==
    \/ HeapCall("copy") \/ HeapCall("pos") \/ HeapCall("neg") \/ HeapCall("abs")
    \/ HeapCall("add") \/ HeapCall("radd") \/ HeapCall("sub") \/ HeapCall("rsub")
    \/ HeapCall("mul") \/ HeapCall("rmul")
    \/ HeapCall("truediv") \/ HeapCall("floordiv") \/ HeapCall("mod")
    \/ HeapCall("pow")
    \/ HeapCall("iadd") \/ HeapCall("isub") \/ HeapCall("imul")
    \/ HeapCall("itruediv") \/ HeapCall("ifloordiv") \/ HeapCall("imod")
    \/ HeapCall("ipow")
    \/ HeapCall("broadcast")
    \/ HeapSetItemCall

SpecHeap == InitHeap /\ [][NextHeap]_vars

(***************************************************************************)
(* The constructor as a state machine: one container, built from any of    *)
(* the argument lists __init__ accepts, with one start index per axis (a   *)
(* single integer, or a sequence of nb_indices integers), then one call of *)
(* an operator on it.                                                      *)
(***************************************************************************)
CtorFrames == <<OneFrame(<<1, 2>>), ManyFrames(<<(<<1, 2>>), (<<3, 4>>)>>)>>

CtorRanks == {1, 2, 3}

CtorShapeArgs ==
    {NoShape, GivenShape(<<2>>), GivenShape(<<1, 2>>), GivenShape(<<2, 1, 2>>)}

CtorStartArgs(nb_indices) ==
    {StartInt(0), StartInt(-1), StartSeq([i \in 1..nb_indices |-> i])}

CtorCalls ==
    UNION {{ComponentNumpy("ZZ", CtorFrames[f], n, sh, st, fmt) :
               f \in DOMAIN CtorFrames, sh \in CtorShapeArgs,
               st \in CtorStartArgs(n), fmt \in {"None", "fmt"}} : n \in CtorRanks}

\* the second operand of a binary call
CtorPartners ==
    { ComponentNumpy("ZZ", OneFrame(<<1, 2>>), 1, NoShape, StartInt(0), "None"),
      ComponentNumpy("ZZ", OneFrame(<<1, 2>>), 2, GivenShape(<<2, 1>>),
                     StartInt(1), "fmt"),
      ComponentNumpy("ZZ", OneFrame(<<3, 4>>), 1, GivenShape(<<3>>),
                     StartInt(0), "None") }

InitCtor ==
    /\ objs \in {<<c>> : c \in CtorCalls}
                   \cup {<<c, d>> : c \in CtorCalls, d \in CtorPartners}
    /\ ret = NoOpCall
    /\ nwrites = 0
    /\ heap = <<>>

\* objs[1].copy()
CopyCall == ret.op = "none" /\ Len(objs) = 1
               /\ Called("copy", <<IntOp(0), <<>>>>, Returns(Copy(objs[1])))

\* one write through the accessor, on a container whose shape has one
\* dimension per index
CtorSetItemCall ==
    /\ ret.op = "none" /\ Len(objs) = 1
    /\ Len(objs[1].shape) = objs[1].nid
    /\ SetItemCall(TRUE)

NextCtor ==
    \/ CopyCall \/ PosCall \/ NegCall
    \/ AddCall \/ SubCall
    \/ MulCall
    \/ BroadcastCall
    \/ CtorSetItemCall

SpecCtor == InitCtor /\ [][NextCtor]_vars

(***************************************************************************)
(* ComponentNumpy._khatri_rao_product                                      *)
(* A matrix is a numpy array of dimensions <<rows, cols>>.                 *)
(***************************************************************************)
\* matrix[:, j], as the sequence of its entries
NpColumn(m, j) == [i \in 1..m.dims[1] |-> m.data[<<i - 1, j>>]]

\* a variant that takes the outer product the other way round
OuterRavelSwapped(u, v) ==
    [k \in 1..(Len(u) * Len(v)) |->
        v[((k - 1) \div Len(u)) + 1] * u[((k - 1) % Len(u)) + 1]]

\* np.einsum('i,j->ij', u, v).ravel(): the outer product, rows first
OuterRavel(u, v) ==
    [k \in 1..(Len(u) * Len(v)) |->
        u[((k - 1) \div Len(v)) + 1] * v[((k - 1) % Len(v)) + 1]]

\* the inner loop: temp after the matrices of rest, for column j
RECURSIVE KrColumn(_, _, _)
KrColumn(temp, rest, j) ==
    IF rest = <<>> THEN temp
    ELSE KrColumn(OuterRavel(temp, NpColumn(Head(rest), j)), Tail(rest), j)

\* np.prod([arg.shape[0] for arg in args])
RECURSIVE KrRows(_)
KrRows(args) == IF args = <<>> THEN 1 ELSE Head(args).dims[1] * KrRows(Tail(args))

KhatriRaoProduct(args) ==
    LET cols == args[1].dims[2]
        rows == KrRows(args)
        \* result[:, i] = temp, for each column i
        temp == [i \in 0..(cols - 1) |->
                    KrColumn(NpColumn(args[1], i), Tail(args), i)]
    IN  [dims |-> <<rows, cols>>,
         data |-> [x \in Coords(<<rows, cols>>) |-> temp[x[2]][x[1] + 1]]]

\* the matrices the product is called with: KrMatrix(d, s) has dimensions d,
\* entries -1 on every third diagonal (counted from s), 2 elsewhere in column
\* 0 and 3 elsewhere in column 1
KrDims == {<<1, 1>>, <<2, 1>>, <<3, 1>>, <<1, 2>>, <<2, 2>>}

KrSeeds == {0, 1, 2}

KrMatrix(d, s) ==
    [dims |-> d,
     data |-> [c \in Coords(d) |->
                 IF (c[1] + c[2] + s) % 3 = 0 THEN -1 ELSE 2 + c[2]]]

KrMatrices(cols) ==
    {KrMatrix(d, s) : d \in {e \in KrDims : e[2] = cols}, s \in KrSeeds}

\* 1..KrMaxArgs matrices with the same number of columns
InitKhatriRao ==
    /\ \E k \in 1..KrMaxArgs, cols \in {d[2] : d \in KrDims} :
          objs \in [1..k -> KrMatrices(cols)]
    /\ ret = [op |-> "none", out |-> NoArr]
    /\ nwrites = 0
    /\ heap = <<>>

\* ComponentNumpy._khatri_rao_product(*objs)
KhatriRaoCall ==
    /\ ret.op = "none"
    /\ ret' = [op |-> "khatri_rao", out |-> KhatriRaoProduct(objs)]
    /\ UNCHANGED <<objs, nwrites, heap>>

NextKhatriRao == KhatriRaoCall

SpecKhatriRao == InitKhatriRao /\ [][NextKhatriRao]_vars

(***************************************************************************)
(* ComponentNumpy._svd                                                     *)
(* Only the dimensions of the arrays are modelled: the matrix argument is  *)
(* its pair of dimensions <<rows, cols>>, and so are the factors returned. *)
(***************************************************************************)
\* the rank argument: None, or a positive integer
NoRank == [given |-> FALSE, r |-> 0]
GivenRank(r) == [given |-> TRUE, r |-> r]

SvdOutcome(kind, path, gram, u, s, v) ==
    [kind |-> kind, path |-> path, gram |-> gram, u |-> u, s |-> s, v |-> v]

SvdRaises(kind) == SvdOutcome(kind, "none", "none", <<0, 0>>, 0, <<0, 0>>)

\* the length of x[:rank] for an axis of n entries
NpSliceLen(n, rank) == IF ~rank.given \/ rank.r >= n THEN n ELSE rank.r

\* scipy.linalg.svd(matrix), then U[:, :rank], S[:rank], V[:rank, :]
SvdFull(matrix, rank) ==
    LET m1 == matrix[1]
        m2 == matrix[2]
        k == IF m1 <= m2 THEN m1 ELSE m2
    IN  SvdOutcome("ok", "full", "none",
                   <<m1, NpSliceLen(m1, rank)>>,
                   NpSliceLen(k, rank),
                   <<NpSliceLen(m2, rank), m2>>)

\* scipy.sparse.linalg.eigsh(A, k=k) for an n x n array A, 1 <= k: the number
\* of eigenpairs returned, 0 standing for an exception.  k >= n is refused by
\* some releases of the library and answered with all n pairs by others.
Eigsh(n, k) == IF k < n THEN {k} ELSE {n, 0}

\* the else branch: the eigenpairs of matrix . matrix^T ("rows") or of
\* matrix^T . matrix ("cols"), then U, S, V.T
SvdGram(matrix, gram, k) ==
    {IF e = 0 THEN SvdRaises("LibraryError")
     ELSE SvdOutcome("ok", "gram", gram, <<matrix[1], e>>, e, <<e, matrix[2]>>) :
        e \in Eigsh(IF gram = "rows" THEN matrix[1] ELSE matrix[2], k)}

\* self._svd(matrix, rank): the set of possible outcomes
Svd(self, matrix, rank) ==
    IF Len(self.shape) # 2 THEN {SvdRaises("ValueError")}
    ELSE LET dim_1 == self.shape[1]
             dim_2 == self.shape[2]
             mdim == IF dim_1 <= dim_2 THEN dim_1 ELSE dim_2
         IN  IF ~rank.given \/ rank.r >= mdim THEN {SvdFull(matrix, rank)}
             ELSE IF dim_1 < dim_2 THEN SvdGram(matrix, "rows", rank.r)
             ELSE SvdGram(matrix, "cols", rank.r)

\* the containers _svd is called on: every two-axis shape, and one container
\* each of one and of three axes
SvdSelves ==
    {BContainer(<<d1, d2>>) : d1 \in 1..SvdMaxDim, d2 \in 1..SvdMaxDim}
        \cup {BContainer(<<2>>), BContainer(<<2, 2, 2>>)}

SvdRanks == {NoRank} \cup {GivenRank(r) : r \in 1..(SvdMaxDim + 1)}

NoSvdCall == [op |-> "none", matrix |-> <<1, 1>>, rank |-> NoRank,
              out |-> SvdRaises("none")]

InitSvd ==
    /\ objs \in {<<c>> : c \in SvdSelves}
    /\ ret = NoSvdCall
    /\ nwrites = 0
    /\ heap = <<>>

\* objs[1]._svd(matrix, rank)
SvdCall ==
    /\ ret.op = "none"
    /\ \E m1 \in 1..SvdMaxDim, m2 \in 1..SvdMaxDim, rank \in SvdRanks :
          \E out \in Svd(objs[1], <<m1, m2>>, rank) :
             ret' = [op |-> "svd", matrix |-> <<m1, m2>>, rank |-> rank, out |-> out]
    /\ UNCHANGED <<objs, nwrites, heap>>

NextSvd == SvdCall

SpecSvd == InitSvd /\ [][NextSvd]_vars

\* C11: equality raises for a nonzero scalar only: A == 0 is true iff every
\* entry of A is zero; A == k for a nonzero integer k is a usage error; A == x
\* for x neither an integer nor a container, and A == B for a container B of
\* another rank, return false and do not raise.
C11_EqualityRaisesOnlyForScalar ==
    ret.op = "eq"
    => LET A == objs[1]
           o == ret.other
       IN  /\ (o.kind = "int" /\ o.k = 0)
                => /\ ret.out.kind = "ok"
                   /\ ret.out.bool <=> \A x \in Coords(A.shape) : A.comp.data[x] = 0
           /\ (o.kind = "int" /\ o.k # 0) => ret.out.kind = "TypeError"
           /\ o.kind = "other" => ret.out.kind = "ok" /\ ~ret.out.bool
           /\ (o.kind = "obj" /\ o.obj.nid # A.nid)
                => ret.out.kind = "ok" /\ ~ret.out.bool

\* C12: a call of copy, of a unary or binary operator, of a compound
\* assignment or of _broadcast, whether it returns or fails, leaves the
\* metadata and the storage of every container that exists unchanged, and a
\* container it returns has a buffer none of them holds; a write through the
\* accessor of one container leaves unchanged what a read returns on every
\* other container, so writing to a result (or a copy) never shows on an
\* operand (or the original), nor the other way round.
C12_NoSharedStorage ==
    [][ /\ ret'.op # "set"
           => /\ \A j \in 1..Len(objs) :
                    /\ objs'[j] = objs[j]
                    /\ heap'[objs[j].comp] = heap[objs[j].comp]
              /\ ret'.out = "ok"
                    => /\ Len(objs') = Len(objs) + 1
                       /\ \A j \in 1..Len(objs) :
                             objs'[Len(objs')].comp # objs[j].comp
              /\ ret'.out # "ok" => objs' = objs /\ heap' = heap
        /\ ret'.op = "set"
           => /\ objs' = objs
              /\ \A j \in 1..Len(objs) :
                    j # ret'.self
                    => \A a \in HeapArgs(Load(heap, objs[j])) :
                          GetItem(Load(heap', objs'[j]), a)
                             = GetItem(Load(heap, objs[j]), a)
      ]_vars

\* A += B built a third container, a write to it succeeded, and the left
\* operand still holds (-4, 2)
C12_Witness ==
    /\ ret.op = "set" /\ ret.made = "iadd" /\ ret.self = 3 /\ ret.out = "ok"
    /\ Len(objs) = 3
    /\ heap[objs[1].comp].data = (<<0>> :> -4) @@ (<<1>> :> 2)
    /\ heap[objs[3].comp].data[<<0>>] = 7
    /\ objs[3].comp # objs[1].comp /\ objs[3].comp # objs[2].comp

\* the lengths of the shape and of the start index are the rank, and the
\* storage has the dimensions of the shape
WellFormed(c) ==
    /\ Len(c.shape) = c.nid
    /\ Len(c.sindex) = c.nid
    /\ c.comp.dims = c.shape

\* the containers of a state: those of objs and the one the last call
\* returned, when it returned one
Returned ==
    IF ret.op \notin {"none", "set", "eq"} /\ ret.out.kind = "ok"
    THEN {ret.out.res} ELSE {}

\* C13 as stated: every container, built by the constructor with one start
\* index per axis or returned by copy, by _broadcast or by an arithmetic
\* operator, has len(shape) == len(startIndex) == rank and a storage of the
\* dimensions of its shape, and a write through the accessor leaves the
\* dimensions of the storage as they are.
C13_ShapeStartRankAgree ==
    \A c \in Range(objs) \cup Returned : WellFormed(c)

\* C13 as amended: the same, for the containers the constructor builds with
\* one start index per axis and with a shape that is the default one or has
\* one dimension per index, and for what copy, _broadcast and the operators
\* return on them.
C13_WellFormedFromRankShape ==
    (\A c \in Range(objs) : Len(c.shape) = c.nid)
    => \A c \in Range(objs) \cup Returned : WellFormed(c)

\* a rank-1 container broadcast with one of shape (2, 1): the result has
\* rank 2, the shape (2, 2), the start index (0, 0) and a 2 x 2 storage
C13_Witness ==
    /\ ret.op = "broadcast" /\ ret.out.kind = "ok"
    /\ objs[1].nid = 1 /\ objs[1].shape = <<2>> /\ objs[1].sindex = <<-1>>
    /\ objs[2].shape = <<2, 1>>
    /\ ret.out.res.nid = 2 /\ ret.out.res.shape = <<2, 2>>
    /\ ret.out.res.sindex = <<0, 0>> /\ ret.out.res.comp.dims = <<2, 2>>

\* the row ((..(i1*n2 + i2)*n3 + ..)*nk + ik) of the index idx = (i1, .., ik),
\* the matrices having n1, .., nk rows
RECURSIVE KrRowOf(_, _, _)
KrRowOf(acc, idx, args) ==
    IF idx = <<>> THEN acc
    ELSE KrRowOf(acc * Head(args).dims[1] + Head(idx), Tail(idx), Tail(args))

\* M1[i1, j] * .. * Mk[ik, j]
RECURSIVE KrEntry(_, _, _)
KrEntry(idx, args, j) ==
    IF idx = <<>> THEN 1
    ELSE Head(args).data[<<Head(idx), j>>] * KrEntry(Tail(idx), Tail(args), j)

\* C14: for k >= 1 matrices M1..Mk with c columns each and n1..nk rows,
\* _khatri_rao_product returns an array of n1*..*nk rows and c columns whose
\* entry at row ((..(i1*n2 + i2)*n3 + ..)*nk + ik) of column j is
\* M1[i1,j] * M2[i2,j] * .. * Mk[ik,j].
C14_KhatriRaoEntries ==
    ret.op = "khatri_rao"
    => LET ns == [t \in 1..Len(objs) |-> objs[t].dims[1]]
           c == objs[1].dims[2]
       IN  /\ ret.out.dims = <<KrRows(objs), c>>
           /\ DOMAIN ret.out.data = Coords(<<KrRows(objs), c>>)
           /\ \A idx \in Coords(ns) : \A j \in 0..(c - 1) :
                 ret.out.data[<<KrRowOf(0, idx, objs), j>>] = KrEntry(idx, objs, j)

\* the 2 x 1 matrix (2, -1) and the 3 x 1 matrix (-1, 2, 2) give the 6 x 1
\* array (-2, 4, 4, 1, -2, -2)
C14_Witness ==
    /\ ret.op = "khatri_rao" /\ Len(objs) = 2
    /\ objs[1] = [dims |-> <<2, 1>>, data |-> (<<0, 0>> :> 2) @@ (<<1, 0>> :> -1)]
    /\ objs[2] = [dims |-> <<3, 1>>,
                  data |-> (<<0, 0>> :> -1) @@ (<<1, 0>> :> 2) @@ (<<2, 0>> :> 2)]
    /\ ret.out.dims = <<6, 1>>
    /\ ret.out.data = (<<0, 0>> :> -2) @@ (<<1, 0>> :> 4) @@ (<<2, 0>> :> 4)
                         @@ (<<3, 0>> :> 1) @@ (<<4, 0>> :> -2) @@ (<<5, 0>> :> -2)

\* C15: with d1 and d2 the dimensions of the matrix being decomposed, _svd
\* takes the full-decomposition path exactly when r is unspecified or
\* r >= min(d1, d2), and otherwise the truncated path on the Gram matrix of
\* the smaller of d1 and d2; when r is given the three factors returned have
\* r columns, r values and r rows.
C15_SvdPathAndSizes ==
    ret.op = "svd"
    => LET d1 == ret.matrix[1]
           d2 == ret.matrix[2]
           small == IF d1 <= d2 THEN d1 ELSE d2
           r == ret.rank
       IN  /\ ret.out.kind = "ok"
           /\ (ret.out.path = "full") <=> (~r.given \/ r.r >= small)
           /\ (ret.out.path = "gram") <=> (r.given /\ r.r < small)
           /\ ret.out.gram = "rows" => d1 <= d2
           /\ ret.out.gram = "cols" => d2 <= d1
           /\ r.given => /\ ret.out.u[2] = r.r
                         /\ ret.out.s = r.r
                         /\ ret.out.v[1] = r.r

====
